---- MODULE Spec2Model ----
(***************************************************************************)
(* The recording session controller of the overlay renderer               *)
(* (src/src/renderer/overlay/overlay.ts): module-level state, the browser *)
(* objects it holds (media streams, audio contexts, media recorders),     *)
(* the animation-frame loop, the pending promises of startRecording and   *)
(* processRecording, and the reset-to-Ready timers; and the part of the   *)
(* main process it talks to: the record/cancel hotkey callbacks and their *)
(* isRecording flag (main.ts), the tray state (tray.ts), the settings     *)
(* store with its cost total (settings.ts), and the RECORDING_DATA        *)
(* handler (ipc.ts).                                                      *)
(*                                                                         *)
(* A message between the two processes is handled in the step that sends  *)
(* it.  The main process never waits for the renderer and its flag is     *)
(* changed by the hotkey callbacks only, so the renderer is handed the    *)
(* same sequences of start/stop/cancel messages, at the same points of    *)
(* its own run, as with messages in flight.                               *)
(* The answer to RECORDING_DATA is likewise handled in the step in which  *)
(* the handler of the main process finishes.                              *)
(*                                                                         *)
(* The renderer is single-threaded: every action below is one task of its *)
(* event loop (an IPC listener, a promise continuation, a recorder event, *)
(* an animation frame, a timer), executed to completion.  A handler is a  *)
(* function from the renderer record to the renderer record, so that the  *)
(* calls a handler makes compose as they do in the source.                *)
(*                                                                         *)
(* Time is in milliseconds (Date.now()).  A null timestamp and a null     *)
(* object reference are both 0: the source tests them by truthiness, and  *)
(* the clock and the session numbers start at 1.                          *)
(***************************************************************************)
EXTENDS Integers, Sequences, FiniteSets, TLC

\* ---------------------------------------------------------------- bounds
MaxSessions == 2      \* startRecording calls that get past the mute check
MaxChunks == 1        \* timeslice chunks pushed while a recorder records
MaxTicks == 2         \* clock advances
ShortTicks == 1       \* clock advances where durations do not matter

Sess == 1..MaxSessions
TickSteps == {3000}                \* how far one clock advance moves Date.now()
Deviations == {0, 5, 6, 9, 10}     \* maxDeviation of a sampled frame (0..128)
GainDeviations == {0, 1, 128}      \* the same, where the gain is looked at
MaxNow == 1 + MaxTicks * 3000
ShortNow == 1 + ShortTicks * 3000

\* ------------------------------------------------------------- variables
VARIABLES
  state,            \* OverlayState: isRecording, isPaused, isCancelled, ...
  mediaStream,      \* session whose MediaStream the global holds, 0 = null
  audioContext,     \* session whose AudioContext the global holds, 0 = null
  analyser,         \* session whose AnalyserNode the global holds, 0 = null
  mediaRecorder,    \* session whose MediaRecorder the global holds, 0 = null
  animationFrameId, \* "null" or "set" (a handle, live or stale)
  raf,              \* pending requestAnimationFrame callbacks, oldest first;
                    \* TRUE marks the one animationFrameId names
  isMicMuted,
  settings,         \* the renderer's settings object (the fields read here)
  statusText,       \* statusText.textContent
  streams,          \* per session: MediaStream "none" | "live" | "ended"
  contexts,         \* per session: AudioContext "none" | "running" | "closed"
  recorders,        \* per session: MediaRecorder.state, "none" before creation
  recEvents,        \* per session: recorder events queued by stop():
                    \* "none" | "data" (dataavailable, then stop) | "stop" | "fired"
  startCall,        \* per session: where its startRecording() call is
  proc,             \* per session: where its processRecording() call is
  sent,             \* per session: duration passed to sendRecordingData (ms)
  timers,           \* pending setTimeout reset callbacks
  now,              \* Date.now()
  nextId,           \* next session number
  currentGain,      \* the visualizer gain, in hundredths
  timerText,        \* timerElement.textContent as <<minutes, seconds>>
  isRecording,      \* main process: let isRecording (the hotkey toggle)
  currentState,     \* main process: TrayManager.currentState
  mainSettings,     \* main process: SettingsManager.settings (fields read here)
  totalCost,        \* main process: settings.totalCost, in 1/10000 dollar
  settingsWindow,   \* main process: the settings window is open
  ready,            \* main process: app.whenReady() has run
  hotkeyManager,    \* main process: HotkeyManager (callbacks,
                    \* registeredShortcuts, paused)
  globalShortcut,   \* Electron's globalShortcut: per accelerator who holds it
                    \* ("free", the callback "record" / "cancel", or "other")
  hotkeySettings,   \* main process: settings.recordHotkey / cancelHotkey
  settingsPage,     \* the settings window: shown or hidden, and the hotkey
                    \* capture of its page (activeHotkeyKey, blurTimeout)
  request,          \* main process: the https request of transcribeAudio()
                    \* and the promise it returned
  hist,             \* history variables, read by the properties only
  tracked           \* which history variables this specification records

vars == <<state, mediaStream, audioContext, analyser, mediaRecorder,
          animationFrameId, raf, isMicMuted, settings, statusText, streams,
          contexts, recorders, recEvents, startCall, proc, sent, timers, now,
          nextId, currentGain, timerText, isRecording, currentState,
          mainSettings, totalCost, settingsWindow, ready, hotkeyManager,
          globalShortcut, hotkeySettings, settingsPage, request, hist,
          tracked>>

\* The renderer, and the main process its messages reach, as one record for
\* the handler functions.
Renderer ==
  [state |-> state, mediaStream |-> mediaStream, audioContext |-> audioContext,
   analyser |-> analyser, mediaRecorder |-> mediaRecorder,
   animationFrameId |-> animationFrameId, raf |-> raf,
   isMicMuted |-> isMicMuted, settings |-> settings, statusText |-> statusText,
   streams |-> streams, contexts |-> contexts, recorders |-> recorders,
   recEvents |-> recEvents, startCall |-> startCall, proc |-> proc,
   sent |-> sent, timers |-> timers, currentGain |-> currentGain,
   timerText |-> timerText, isRecording |-> isRecording,
   currentState |-> currentState, mainSettings |-> mainSettings,
   totalCost |-> totalCost, settingsWindow |-> settingsWindow,
   ready |-> ready, hotkeyManager |-> hotkeyManager,
   globalShortcut |-> globalShortcut, hotkeySettings |-> hotkeySettings,
   settingsPage |-> settingsPage, request |-> request, hist |-> hist,
   tracked |-> tracked]

Commit(m) ==
  /\ state' = m.state
  /\ mediaStream' = m.mediaStream
  /\ audioContext' = m.audioContext
  /\ analyser' = m.analyser
  /\ mediaRecorder' = m.mediaRecorder
  /\ animationFrameId' = m.animationFrameId
  /\ raf' = m.raf
  /\ isMicMuted' = m.isMicMuted
  /\ settings' = m.settings
  /\ statusText' = m.statusText
  /\ streams' = m.streams
  /\ contexts' = m.contexts
  /\ recorders' = m.recorders
  /\ recEvents' = m.recEvents
  /\ startCall' = m.startCall
  /\ proc' = m.proc
  /\ sent' = m.sent
  /\ timers' = m.timers
  /\ currentGain' = m.currentGain
  /\ timerText' = m.timerText
  /\ isRecording' = m.isRecording
  /\ currentState' = m.currentState
  /\ mainSettings' = m.mainSettings
  /\ totalCost' = m.totalCost
  /\ settingsWindow' = m.settingsWindow
  /\ ready' = m.ready
  /\ hotkeyManager' = m.hotkeyManager
  /\ globalShortcut' = m.globalShortcut
  /\ hotkeySettings' = m.hotkeySettings
  /\ settingsPage' = m.settingsPage
  /\ request' = m.request
  /\ hist' = m.hist
  /\ tracked' = tracked

\* ------------------------------------------------------ program constants
SILENCE_THRESHOLD == 5      \* settings.silenceThreshold default
PAUSE_DELAY == 2500         \* settings.pauseDelay default
CANCEL_RESET_MS == 1000     \* cancelRecording's reset-to-Ready delay
RESULT_RESET_MS == 1500     \* reset delay after 'Copied!' / 'No speech'
ERROR_RESET_MS == 2000      \* reset delay after a thrown transcription error
MIN_GAIN == 150             \* 1.5, in hundredths
MAX_GAIN == 500             \* 5.0, in hundredths
TARGET_PEAK == 60           \* 0.6, in hundredths
SMOOTHING == 92             \* 0.92, in hundredths

\* let settings = {...}: the defaults the renderer starts with.
DefaultSettings ==
  [silenceDetection |-> TRUE, silenceThreshold |-> SILENCE_THRESHOLD,
   pauseDelay |-> PAUSE_DELAY, apiKeyValid |-> FALSE, apiKey |-> FALSE]

\* What the settings window can leave in the store of the main process, and
\* so what getSettings() / a settings-changed broadcast can carry: silence
\* detection switched on or off, and an API key stored (and tested) or not.
LoadedSettings ==
  {[silenceDetection |-> b, silenceThreshold |-> SILENCE_THRESHOLD,
    pauseDelay |-> PAUSE_DELAY, apiKeyValid |-> k, apiKey |-> k] :
     b \in BOOLEAN, k \in {TRUE}}
  \cup {DefaultSettings}

\* The page of the settings window before any capture, not yet shown; also
\* what is left of it once the window is destroyed.
NoSettingsPage ==
  [visible |-> FALSE, activeHotkeyKey |-> "null", blurTimeout |-> FALSE]

\* --------------------------------------------- main process: whisper.ts
\* A JavaScript string, as far as whisper.ts looks at it: the pieces it is
\* made of (what includes() can find) and its length in characters.
Str(words, length) == [words |-> words, length |-> length]
Lit(s, length) == Str(<<s>>, length)
Empty == Str(<<>>, 0)
concat(a, b) == Str(a.words \o b.words, a.length + b.length)
includes(s, word) == \E i \in 1..Len(s.words) : s.words[i] = word

\* s.substring(0, n) of a longer string; the pieces looked for by includes()
\* lie within the first n characters of every message drawn below.
substring(s, n) == IF s.length <= n THEN s ELSE Str(s.words, n)

RECURSIVE decimalLength(_)
decimalLength(n) == IF n < 10 THEN 1 ELSE 1 + decimalLength(n \div 10)

\* `${statusCode}`
decimal(n) == Lit(ToString(n), decimalLength(n))

MAX_ERROR_LENGTH == 60         \* errorMessage is cut to this many characters

\* A response body: text that JSON.parse rejects ("invalid"), the JSON
\* literal null ("null"), or a JSON object with the members read here
\* (Empty and "" stand for a member that is absent or an empty string).
Body(json, text, message, type, code) ==
  [json |-> json, text |-> text, message |-> message, type |-> type,
   code |-> code]
InvalidBody == Body("invalid", Empty, Empty, "", "")
NullBody == Body("null", Empty, Empty, "", "")
NoBody == Body("none", Empty, Empty, "", "")

\* parsed?.error?.message || '', parsed?.error?.type || '',
\* parsed?.error?.code || '' of a body that JSON.parse accepted.
errorMessageOf(body) == IF body.json = "object" THEN body.message ELSE Empty
errorTypeOf(body) == IF body.json = "object" THEN body.type ELSE ""
errorCodeOf(body) == IF body.json = "object" THEN body.code ELSE ""

\* `API error (${statusCode})`
genericApiError(statusCode) ==
  concat(Lit("API error (", 11), concat(decimal(statusCode), Lit(")", 1)))

parseApiError_noFallback(statusCode, responseBody) ==
  IF responseBody.json = "invalid" THEN genericApiError(statusCode)
  ELSE
    LET errorMessage == errorMessageOf(responseBody)
        errorType == errorTypeOf(responseBody)
        errorCode == errorCodeOf(responseBody)
    IN CASE statusCode = 401 ->
              IF includes(errorMessage, "Incorrect API key")
              THEN Lit("Incorrect API key", 17)
              ELSE IF includes(errorMessage, "Invalid Authentication")
              THEN Lit("Invalid API key", 15)
              ELSE Lit("API key authentication failed", 29)
         [] statusCode = 429 ->
              IF \/ includes(errorMessage, "quota")
                 \/ errorCode = "insufficient_quota"
              THEN Lit("Quota exhausted - add credits at platform.openai.com",
                       52)
              ELSE IF \/ includes(errorMessage, "Rate limit")
                      \/ errorType = "rate_limit_exceeded"
              THEN Lit("Rate limited - wait a moment and retry", 38)
              ELSE Lit("Too many requests - slow down", 29)
         [] statusCode = 500 -> Lit("OpenAI server error - please retry", 34)
         [] statusCode = 503 ->
              IF includes(errorMessage, "Slow Down")
              THEN Lit("OpenAI throttling - reduce request rate", 39)
              ELSE Lit("OpenAI busy - please retry later", 32)
         [] statusCode = 403 ->
              Lit("API access denied - region may be blocked", 41)
         [] OTHER ->
              IF errorMessage.length > MAX_ERROR_LENGTH
              THEN concat(substring(errorMessage, MAX_ERROR_LENGTH),
                          Lit("...", 3))
              ELSE errorMessage

\* parseApiError(): the user-facing message for a response whose status is
\* not 200.
parseApiError(statusCode, responseBody) ==
  IF responseBody.json = "invalid" THEN genericApiError(statusCode)
  ELSE
    LET errorMessage == errorMessageOf(responseBody)
        errorType == errorTypeOf(responseBody)
        errorCode == errorCodeOf(responseBody)
    IN CASE statusCode = 401 ->
              IF includes(errorMessage, "Incorrect API key")
              THEN Lit("Incorrect API key", 17)
              ELSE IF includes(errorMessage, "Invalid Authentication")
              THEN Lit("Invalid API key", 15)
              ELSE Lit("API key authentication failed", 29)
         [] statusCode = 429 ->
              IF \/ includes(errorMessage, "quota")
                 \/ errorCode = "insufficient_quota"
              THEN Lit("Quota exhausted - add credits at platform.openai.com",
                       52)
              ELSE IF \/ includes(errorMessage, "Rate limit")
                      \/ errorType = "rate_limit_exceeded"
              THEN Lit("Rate limited - wait a moment and retry", 38)
              ELSE Lit("Too many requests - slow down", 29)
         [] statusCode = 500 -> Lit("OpenAI server error - please retry", 34)
         [] statusCode = 503 ->
              IF includes(errorMessage, "Slow Down")
              THEN Lit("OpenAI throttling - reduce request rate", 39)
              ELSE Lit("OpenAI busy - please retry later", 32)
         [] statusCode = 403 ->
              Lit("API access denied - region may be blocked", 41)
         [] OTHER ->
              IF errorMessage # Empty
              THEN IF errorMessage.length > MAX_ERROR_LENGTH
                   THEN concat(substring(errorMessage, MAX_ERROR_LENGTH),
                               Lit("...", 3))
                   ELSE errorMessage
              ELSE genericApiError(statusCode)

\* A TranscriptionResponse; Empty as error stands for no error member.
TranscriptionResponse(text, error, rawError) ==
  [text |-> text, error |-> error, rawError |-> rawError]

\* The promise transcribeAudio() returns.  Its executor is given resolve
\* only; a promise that is settled stays as it is.
PendingPromise ==
  [status |-> "pending", value |-> TranscriptionResponse(Empty, Empty, NoBody)]
resolve(promise, value) ==
  IF promise.status = "pending"
  THEN [status |-> "resolved", value |-> value]
  ELSE promise

\* No call of transcribeAudio() under way.  outcome is what the transport
\* did first (read by the properties only).
NoOutcome == [kind |-> "none", statusCode |-> 0, body |-> NoBody,
              message |-> Empty]
NoRequest == [phase |-> "none", promise |-> PendingPromise,
              outcome |-> NoOutcome]

noteOutcome(r, kind, statusCode, body, message) ==
  IF r.outcome.kind = "none"
  THEN [r EXCEPT !.outcome = [kind |-> kind, statusCode |-> statusCode,
                              body |-> body, message |-> message]]
  ELSE r

\* transcribeAudio(): the request is written and ended, the promise returned.
transcribeAudio(m) ==
  [m EXCEPT !.request = [phase |-> "sent", promise |-> PendingPromise,
                         outcome |-> NoOutcome]]

\* res.on('end'): the whole response has been read (statusCode 0 stands for
\* a missing res.statusCode).  JSON null parses, but reading result.text of
\* it throws inside the same try block.
onEnd(m, statusCode, data) ==
  LET value ==
        IF statusCode = 200
        THEN IF data.json = "object"
             THEN TranscriptionResponse(data.text, Empty, NoBody)
             ELSE TranscriptionResponse(
                    Empty, Lit("Failed to parse API response", 28), NoBody)
        ELSE TranscriptionResponse(Empty, parseApiError(statusCode, data),
                                   data)
      r == noteOutcome(m.request, "end", statusCode, data, Empty)
  IN [m EXCEPT !.request = [r EXCEPT !.phase = "done",
                                     !.promise = resolve(@, value)]]

\* req.on('error')
onError(m, message) ==
  LET value == TranscriptionResponse(
                 Empty, concat(Lit("Connection failed: ", 19), message),
                 NoBody)
      r == noteOutcome(m.request, "error", 0, NoBody, message)
  IN [m EXCEPT !.request = [r EXCEPT !.phase = "done",
                                     !.promise = resolve(@, value)]]

\* req.on('timeout'): req.destroy(), after which the request may still emit
\* 'error'.
onTimeout(m) ==
  LET value == TranscriptionResponse(Empty, Lit("Request timed out", 17),
                                     NoBody)
      r == noteOutcome(m.request, "timeout", 0, NoBody, Empty)
  IN [m EXCEPT !.request = [r EXCEPT !.phase = "destroyed",
                                     !.promise = resolve(@, value)]]

\* --------------------------------------------- main process: hotkeys.ts
\* The accelerators looked at: the two defaults and one more.  "" is a
\* hotkey that is not set.
Accelerators == {"CommandOrControl+Shift+Space", "Escape", "F9"}

DefaultHotkeys ==
  [recordHotkey |-> "CommandOrControl+Shift+Space", cancelHotkey |-> "Escape"]

\* new HotkeyManager(), with nothing registered in the system.
NoHotkeys ==
  [hotkeyManager |-> [callbacks |-> {}, registeredShortcuts |-> <<>>,
                      paused |-> FALSE],
   globalShortcut |-> [a \in Accelerators |-> "free"],
   hotkeySettings |-> DefaultHotkeys]

\* globalShortcut.unregister(accelerator): only a shortcut of this app goes.
unregister(m, accelerator) ==
  IF m.globalShortcut[accelerator] \in {"record", "cancel"}
  THEN [m EXCEPT !.globalShortcut[accelerator] = "free"]
  ELSE m

RECURSIVE unregisterEach(_, _)
unregisterEach(m, shortcuts) ==
  IF shortcuts = <<>> THEN m
  ELSE unregisterEach(unregister(m, Head(shortcuts)), Tail(shortcuts))

unregisterAll(m) ==
  [unregisterEach(m, m.hotkeyManager.registeredShortcuts) EXCEPT
     !.hotkeyManager.registeredShortcuts = <<>>]

\* registerHotkey(name, accelerator): globalShortcut.register returns false
\* for an accelerator that is already taken, by this app or by another.
registerHotkey(m, name, accelerator) ==
  IF name \notin m.hotkeyManager.callbacks \/ accelerator = "" THEN m
  ELSE IF m.globalShortcut[accelerator] = "free"
  THEN [m EXCEPT !.globalShortcut[accelerator] = name,
                 !.hotkeyManager.registeredShortcuts = Append(@, accelerator)]
  ELSE m

\* updateHotkeys without its 'don't register if paused' return.
updateHotkeys_noPausedCheck(m) ==
  registerHotkey(registerHotkey(unregisterAll(m), "record",
                                m.hotkeySettings.recordHotkey),
                 "cancel", m.hotkeySettings.cancelHotkey)

updateHotkeys(m) ==
  IF m.hotkeyManager.paused THEN m
  ELSE registerHotkey(registerHotkey(unregisterAll(m), "record",
                                     m.hotkeySettings.recordHotkey),
                      "cancel", m.hotkeySettings.cancelHotkey)

registerHotkeys(m) ==
  updateHotkeys([m EXCEPT !.hotkeyManager.callbacks = {"record", "cancel"}])

pause(m) ==
  IF m.hotkeyManager.paused THEN m
  ELSE unregisterAll([m EXCEPT !.hotkeyManager.paused = TRUE])

resume(m) ==
  IF ~m.hotkeyManager.paused THEN m
  ELSE updateHotkeys([m EXCEPT !.hotkeyManager.paused = FALSE])

\* The hotkey part of the SETTINGS_UPDATE handler: the store is updated, and
\* the hotkeys are registered anew when a hotkey that is given has changed.
settingsUpdateHotkeys(m, newSettings) ==
  LET old == m.hotkeySettings
      hotkeyChanged ==
        \/ newSettings.recordHotkey # ""
           /\ newSettings.recordHotkey # old.recordHotkey
        \/ newSettings.cancelHotkey # ""
           /\ newSettings.cancelHotkey # old.cancelHotkey
      m1 == [m EXCEPT !.hotkeySettings = newSettings]
  IN IF hotkeyChanged THEN updateHotkeys(m1) ELSE m1

\* ----------------------------------------------------------- main process
\* TrayManager.setState, as the handlers of the main process call it.  A
\* specification that does not name "tray" leaves the tray out.
setState(m, trayState) ==
  IF "tray" \in m.tracked THEN [m EXCEPT !.currentState = trayState] ELSE m

\* calculateCost: $0.006 a minute on whole seconds, rounded up.  The duration
\* is in ms here and the cost in 1/10000 dollar, which is one per second.
calculateCost(duration) == (duration + 999) \div 1000

\* SettingsManager.addCost.  A specification that does not name "cost" leaves
\* the total out.
addCost(m, cost) ==
  IF "cost" \in m.tracked THEN [m EXCEPT !.totalCost = @ + cost] ELSE m

\* ------------------------------------------------------------- UI helpers
getIdleStatusText(m) ==
  IF m.isMicMuted THEN "Mic muted"
  ELSE IF ~m.settings.apiKeyValid THEN "API Key Missing"
  ELSE "Ready"

updateIdleStatus(m) ==
  IF m.state.isRecording THEN m
  ELSE [m EXCEPT !.statusText = getIdleStatusText(m)]

setStatus(m, status, text) ==
  [m EXCEPT !.statusText =
     IF status = "ready" /\ text = "Ready" THEN getIdleStatusText(m) ELSE text]

\* ------------------------------------------------------ animation frames
Unmarked(b) == ~b

\* animationFrameId = requestAnimationFrame(drawWaveform)
requestAnimationFrame(m) ==
  [m EXCEPT !.raf = Append([i \in DOMAIN m.raf |-> FALSE], TRUE),
            !.animationFrameId = "set"]

\* if (animationFrameId) { cancelAnimationFrame(animationFrameId);
\*                         animationFrameId = null; }
cancelFrame(m) ==
  IF m.animationFrameId = "set"
  THEN [m EXCEPT !.raf = SelectSeq(m.raf, Unmarked), !.animationFrameId = "null"]
  ELSE m

\* ----------------------------------------------------------------- timers
\* setTimeout(callback, delay) at time at - delay.  The browser runs timers in
\* the order of their deadlines, and in the order they were set when the
\* deadlines are equal, so the pending timers are kept in that order.
setTimeout(m, kind, at) ==
  LET q == m.timers
      k == Cardinality({i \in DOMAIN q : q[i].at <= at})
  IN [m EXCEPT !.timers =
        [i \in 1..(Len(q) + 1) |->
           IF i <= k THEN q[i]
           ELSE IF i = k + 1 THEN [kind |-> kind, at |-> at]
           ELSE q[i - 1]]]

\* --------------------------------------------------------- media objects
\* MediaRecorder.stop(): the recorder becomes inactive at once and queues a
\* final dataavailable event followed by a stop event.
recorderStop(m, c, why) ==
  [m EXCEPT !.recorders[c] = "inactive", !.recEvents[c] = "data",
            !.hist.how[c] = why]

\* track.stop() on every track of stream c.  A recorder whose tracks have all
\* ended stops by itself (MediaStream Recording: "all tracks ended").
stopTracks(m, c) ==
  LET m1 == [m EXCEPT !.streams[c] = "ended"]
  IN IF m.recorders[c] \in {"recording", "paused"}
     THEN recorderStop(m1, c, "ended") ELSE m1

cleanup(m) ==
  LET m1 == IF m.mediaStream # 0
            THEN [stopTracks(m, m.mediaStream) EXCEPT !.mediaStream = 0]
            ELSE m
      m2 == IF m1.audioContext # 0
            THEN [m1 EXCEPT !.contexts[m1.audioContext] = "closed",
                            !.audioContext = 0]
            ELSE m1
  IN [m2 EXCEPT !.analyser = 0, !.mediaRecorder = 0,
                !.state.audioChunks = <<>>]

\* ------------------------------------------------------- pause and resume
\* electronAPI.notifyPause(): RECORDING_PAUSE is sent and its handler in the
\* main process sets the tray to 'paused'.
notifyPause(m) ==
  setState([m EXCEPT !.hist.notes =
              IF "notes" \in m.tracked THEN Append(@, "paused") ELSE @],
           "paused")

\* electronAPI.notifyResume(): RECORDING_RESUME is sent and its handler sets
\* the tray to 'recording'.
notifyResume(m) ==
  setState([m EXCEPT !.hist.notes =
              IF "notes" \in m.tracked THEN Append(@, "resumed") ELSE @],
           "recording")

pauseRecording(m, t) ==
  IF m.state.isPaused THEN m
  ELSE LET m1 == setStatus([m EXCEPT !.state.isPaused = TRUE,
                                     !.state.pauseStart = t],
                           "recording", "Paused")
           m2 == IF m1.mediaRecorder # 0
                    /\ m1.recorders[m1.mediaRecorder] = "recording"
                 THEN [m1 EXCEPT !.recorders[m1.mediaRecorder] = "paused"]
                 ELSE m1
       IN notifyPause(m2)

resumeRecording(m, t) ==
  IF ~m.state.isPaused THEN m
  ELSE LET m1 == IF m.state.pauseStart # 0
                 THEN [m EXCEPT !.state.pausedTime = @ + (t - m.state.pauseStart)]
                 ELSE m
           m2 == setStatus([m1 EXCEPT !.state.isPaused = FALSE,
                                      !.state.pauseStart = 0,
                                      !.state.silenceStart = 0,
                                      !.hist.resumed =
                                         IF "resumed" \in m.tracked
                                         THEN t ELSE @],
                           "recording", "Recording")
           m3 == IF m2.mediaRecorder # 0
                    /\ m2.recorders[m2.mediaRecorder] = "paused"
                 THEN [m2 EXCEPT !.recorders[m2.mediaRecorder] = "recording"]
                 ELSE m2
       IN notifyResume(m3)

checkSilence(m, maxDeviation, t) ==
  LET silenceDeviation == 1 + m.settings.silenceThreshold
  IN IF maxDeviation < silenceDeviation
     THEN IF m.state.silenceStart = 0
          THEN [m EXCEPT !.state.silenceStart = t]
          ELSE IF t - m.state.silenceStart > m.settings.pauseDelay
               THEN pauseRecording(m, t)
               ELSE m
     ELSE [m EXCEPT !.state.silenceStart = 0]

\* ------------------------------------------------------------- auto-gain
Min(a, b) == IF a < b THEN a ELSE b
Max(a, b) == IF a > b THEN a ELSE b

\* The auto-gain calculation of drawWaveform without its clamp.
autoGain_unclamped(gain, maxDeviation) ==
  IF maxDeviation > 0
  THEN LET targetGain == (TARGET_PEAK * 128) \div maxDeviation
       IN IF targetGain < gain
          THEN (gain * 70 + targetGain * 30) \div 100
          ELSE (gain * SMOOTHING + targetGain * (100 - SMOOTHING)) \div 100
  ELSE gain

\* The auto-gain calculation of drawWaveform, on hundredths rounded down:
\* normalizedMax = maxDeviation / 128 is positive exactly when maxDeviation
\* is, and TARGET_PEAK / normalizedMax is TARGET_PEAK * 128 / maxDeviation.
autoGain(gain, maxDeviation) ==
  IF maxDeviation > 0
  THEN LET targetGain == (TARGET_PEAK * 128) \div maxDeviation
           moved == IF targetGain < gain
                    THEN (gain * 70 + targetGain * 30) \div 100
                    ELSE (gain * SMOOTHING + targetGain * (100 - SMOOTHING))
                           \div 100
       IN Max(MIN_GAIN, Min(MAX_GAIN, moved))
  ELSE gain

\* ------------------------------------------------------------- the timer
formatTime(ms) ==
  LET totalSeconds == ms \div 1000
  IN <<totalSeconds \div 60, totalSeconds % 60>>

\* updateTimer without the subtraction of the pause that is still open.
updateTimer_noOpenPause(m, t) ==
  IF ~m.state.isRecording \/ "timer" \notin m.tracked THEN m
  ELSE LET elapsed == t - m.state.startTime - m.state.pausedTime
           shown == Max(0, elapsed)
       IN [m EXCEPT !.timerText = formatTime(shown), !.hist.shown = shown]

\* updateTimer.  hist.shown keeps the milliseconds the text was made from.  A
\* specification that does not name "timer" leaves the timer out.
updateTimer(m, t) ==
  IF ~m.state.isRecording \/ "timer" \notin m.tracked THEN m
  ELSE LET elapsed == t - m.state.startTime - m.state.pausedTime
                        - (IF m.state.isPaused /\ m.state.pauseStart # 0
                           THEN t - m.state.pauseStart ELSE 0)
           shown == Max(0, elapsed)
       IN [m EXCEPT !.timerText = formatTime(shown), !.hist.shown = shown]

\* ---------------------------------------------------------- drawWaveform
\* drawWaveform with the resume margin one lower (silenceThreshold + 3).
drawWaveform_margin3(m, maxDeviation, t) ==
  IF m.analyser = 0 THEN m
  ELSE IF ~m.state.isRecording THEN m
  ELSE LET m0 == IF "gain" \in m.tracked
                 THEN [m EXCEPT !.currentGain = autoGain(@, maxDeviation)]
                 ELSE m
           m1 == IF m0.settings.silenceDetection /\ ~m0.state.isPaused
                 THEN checkSilence(m0, maxDeviation, t) ELSE m0
           m2 == IF m1.state.isPaused /\ m1.settings.silenceDetection
                    /\ maxDeviation > m1.settings.silenceThreshold + 3
                 THEN resumeRecording(m1, t) ELSE m1
       IN requestAnimationFrame(updateTimer(m2, t))

\* drawWaveform without its return when state.isRecording is false.
drawWaveform_noRecordingCheck(m, maxDeviation, t) ==
  IF m.analyser = 0 THEN m
  ELSE LET m0 == IF "gain" \in m.tracked
                 THEN [m EXCEPT !.currentGain = autoGain(@, maxDeviation)]
                 ELSE m
           m1 == IF m0.settings.silenceDetection /\ ~m0.state.isPaused
                 THEN checkSilence(m0, maxDeviation, t) ELSE m0
           m2 == IF m1.state.isPaused /\ m1.settings.silenceDetection
                    /\ maxDeviation > m1.settings.silenceThreshold + 4
                 THEN resumeRecording(m1, t) ELSE m1
       IN requestAnimationFrame(updateTimer(m2, t))

\* One run of drawWaveform.  maxDeviation is what the analyser returns when
\* the frame samples it; a frame that returns early samples nothing.  A
\* specification that does not name "gain" leaves the gain out.
drawWaveform(m, maxDeviation, t) ==
  IF m.analyser = 0 THEN m
  ELSE IF ~m.state.isRecording THEN m
  ELSE LET m0 == IF "gain" \in m.tracked
                 THEN [m EXCEPT !.currentGain = autoGain(@, maxDeviation)]
                 ELSE m
           m1 == IF m0.settings.silenceDetection /\ ~m0.state.isPaused
                 THEN checkSilence(m0, maxDeviation, t) ELSE m0
           m2 == IF m1.state.isPaused /\ m1.settings.silenceDetection
                    /\ maxDeviation > m1.settings.silenceThreshold + 4
                 THEN resumeRecording(m1, t) ELSE m1
       IN requestAnimationFrame(updateTimer(m2, t))

\* ------------------------------------------------------------ the phases
\* Session c has been handed to finalize and its transcription has not
\* settled: its recorder's events are still queued after a stop that was not
\* a cancel, or its processRecording is suspended at an await.
InFlight(m, c) ==
  \/ m.recEvents[c] \in {"data", "stop"} /\ m.hist.how[c] # "cancel"
  \/ m.proc[c] \in {"arrayBuffer", "sending", "noKey"}

Phase(m) ==
  IF m.state.isRecording
  THEN IF m.state.isPaused THEN "Paused" ELSE "Recording"
  ELSE IF \E c \in Sess : InFlight(m, c) THEN "Finalizing" ELSE "Idle"

\* -------------------------------------------------------- startRecording
\* startRecording() up to its first await: the mute check, then loadSettings()
\* is called and the call suspends.  A blocked call plays a sound and sends
\* RECORDING_CANCEL, whose handler in the main process resets the tray.
startRecording(m, c) ==
  IF m.isMicMuted THEN setState(m, "idle")
  ELSE [m EXCEPT !.startCall[c] = "loadSettings"]

\* loadSettings() resolving inside startRecording: the settings are merged,
\* then getUserMedia() is called and the call suspends again.
loadSettings(m, loaded) ==
  updateIdleStatus([m EXCEPT !.settings = loaded])

startRecordingLoaded(m, c, loaded) ==
  [loadSettings(m, loaded) EXCEPT !.startCall[c] = "getUserMedia"]

\* startRecordingOpened without its state.isPaused = false.
startRecordingOpened_keepsPaused(m, c, maxDeviation, t) ==
  LET m1 == [m EXCEPT !.mediaStream = c, !.streams[c] = "live",
                      !.audioContext = c, !.contexts[c] = "running",
                      !.analyser = c,
                      !.mediaRecorder = c, !.recorders[c] = "recording",
                      !.state.audioChunks = <<>>,
                      !.state.isRecording = TRUE,
                      !.state.startTime = t,
                      !.state.pausedTime = 0,
                      !.state.pauseStart = 0,
                      !.state.silenceStart = 0,
                      !.currentGain =
                         IF "gain" \in m.tracked THEN MIN_GAIN ELSE @,
                      !.hist.rec = 0,
                      !.hist.notes = <<>>,
                      !.hist.resumed = 0,
                      !.startCall[c] = "done"]
  IN drawWaveform(setStatus(m1, "recording", "Recording"), maxDeviation, t)

\* getUserMedia() resolved: the rest of the try block, to the first frame.
startRecordingOpened(m, c, maxDeviation, t) ==
  LET m1 == [m EXCEPT !.mediaStream = c, !.streams[c] = "live",
                      !.audioContext = c, !.contexts[c] = "running",
                      !.analyser = c,
                      !.mediaRecorder = c, !.recorders[c] = "recording",
                      !.state.audioChunks = <<>>,
                      !.state.isRecording = TRUE,
                      !.state.isPaused = FALSE,
                      !.state.startTime = t,
                      !.state.pausedTime = 0,
                      !.state.pauseStart = 0,
                      !.state.silenceStart = 0,
                      !.currentGain =
                         IF "gain" \in m.tracked THEN MIN_GAIN ELSE @,
                      !.hist.rec = 0,
                      !.hist.notes = <<>>,
                      !.hist.resumed = 0,
                      !.startCall[c] = "done"]
  IN drawWaveform(setStatus(m1, "recording", "Recording"), maxDeviation, t)

\* getUserMedia() rejected: the catch block.
startRecordingFailed(m, c) ==
  setStatus([m EXCEPT !.startCall[c] = "failed"], "error", "Mic Error")

\* ---------------------------------------------------------- stop / cancel
stopRecording(m) ==
  IF ~m.state.isRecording THEN m
  ELSE LET m1 == cancelFrame([m EXCEPT !.state.isRecording = FALSE])
           m2 == IF m1.mediaRecorder # 0
                    /\ m1.recorders[m1.mediaRecorder] # "inactive"
                 THEN recorderStop(m1, m1.mediaRecorder, "stop") ELSE m1
       IN setStatus(m2, "processing", "Processing")

\* cancelRecording without its 'only cancel if actually recording' return.
cancelRecording_unguarded(m, t) ==
  LET m1 == cancelFrame([m EXCEPT !.state.isRecording = FALSE,
                                  !.state.isCancelled = TRUE])
      m2 == IF m1.mediaRecorder # 0
               /\ m1.recorders[m1.mediaRecorder] # "inactive"
            THEN recorderStop(m1, m1.mediaRecorder, "cancel") ELSE m1
      m3 == setStatus(cleanup(m2), "ready", "Cancelled")
  IN setTimeout(m3, "cancel", t + CANCEL_RESET_MS)

cancelRecording(m, t) ==
  IF ~m.state.isRecording THEN m
  ELSE LET m1 == cancelFrame([m EXCEPT !.state.isRecording = FALSE,
                                       !.state.isCancelled = TRUE])
           m2 == IF m1.mediaRecorder # 0
                    /\ m1.recorders[m1.mediaRecorder] # "inactive"
                 THEN recorderStop(m1, m1.mediaRecorder, "cancel") ELSE m1
           m3 == setStatus(cleanup(m2), "ready", "Cancelled")
       IN setTimeout(m3, "cancel", t + CANCEL_RESET_MS)

\* ------------------------------------------------------ processRecording
\* The elapsed recording time of the data model: wall time since the start,
\* less the accumulated pauses, less the pause that is still open.
Elapsed(st, t) ==
  t - st.startTime - st.pausedTime
    - (IF st.isPaused /\ st.pauseStart # 0 THEN t - st.pauseStart ELSE 0)

\* processRecording without its audioChunks.length === 0 return.
processRecording_noEmptyCheck(m, c, t) ==
  IF m.state.isCancelled
  THEN [cleanup([m EXCEPT !.state.isCancelled = FALSE]) EXCEPT
          !.proc[c] = "skipped"]
  ELSE [m EXCEPT !.proc[c] = "arrayBuffer",
                 !.sent[c] = t - m.state.startTime - m.state.pausedTime,
                 !.hist.due[c] =
                    IF "due" \in m.tracked THEN Elapsed(m.state, t) ELSE @]

\* processRecording() up to its first await (run by recorder c's onstop).
processRecording(m, c, t) ==
  IF m.state.isCancelled
  THEN [cleanup([m EXCEPT !.state.isCancelled = FALSE]) EXCEPT
          !.proc[c] = "skipped"]
  ELSE IF Len(m.state.audioChunks) = 0
  THEN [drawWaveform(setStatus(cleanup(m), "ready", "Ready"), 0, t) EXCEPT
          !.proc[c] = "empty"]
  ELSE [m EXCEPT !.proc[c] = "arrayBuffer",
                 !.sent[c] = t - m.state.startTime - m.state.pausedTime,
                 !.hist.due[c] =
                    IF "due" \in m.tracked THEN Elapsed(m.state, t) ELSE @]

\* The RECORDING_DATA handler of the main process up to its await of
\* transcribeAudio(): without an API key it answers { error } at once.
recordingData(m, c) ==
  IF ~m.mainSettings.apiKey THEN [m EXCEPT !.proc[c] = "noKey"]
  ELSE setState([m EXCEPT !.proc[c] = "sending"], "transcribing")

\* The rest of the RECORDING_DATA handler, once transcribeAudio() has settled
\* with an error ("error": result.error set, or a throw) or with a text that
\* may be empty.  sent[c] is data.duration.
recordingDataSettled(m, c, res) ==
  IF m.proc[c] = "noKey" THEN m
  ELSE IF res = "error" THEN setState(m, "idle")
  ELSE setState(addCost(m, calculateCost(m.sent[c])), "idle")

\* audioBlob.arrayBuffer() resolved: sendRecordingData() is invoked.
processRecordingSend(m, c) ==
  recordingData(m, c)

\* sendRecordingData() settled with res: "error" (result.error set), "text"
\* (non-empty text), "noSpeech" (no text, no error) or "reject" (the promise
\* rejected); then cleanup().  The request payload is gone with the call.
processRecordingResult(m, c, res, t) ==
  LET m1 == CASE res = "error" -> setStatus(m, "error", "result.error")
              [] res = "text" ->
                   setTimeout(setStatus(m, "success", "Copied!"),
                              "reset", t + RESULT_RESET_MS)
              [] res = "noSpeech" ->
                   setTimeout(setStatus(m, "ready", "No speech"),
                              "reset", t + RESULT_RESET_MS)
              [] res = "reject" ->
                   setTimeout(setStatus(m, "error", "Error"),
                              "reset", t + ERROR_RESET_MS)
  IN [cleanup(m1) EXCEPT !.proc[c] = res, !.sent[c] = 0, !.hist.due[c] = 0]

\* A reset-to-Ready timer firing.  cancelRecording's callback looks at
\* state.isRecording first; processRecording's callbacks do not.
resetTimer(m, kind, maxDeviation, t) ==
  IF kind = "cancel" /\ m.state.isRecording THEN m
  ELSE drawWaveform(setStatus(m, "ready", "Ready"), maxDeviation, t)

\* ------------------------------------------------------ history variables
\* hist.how[c]        what made recorder c inactive: "stop" (stopRecording),
\*                    "cancel" (cancelRecording) or "ended" (its tracks ended)
\* hist.trig[c]       the phase in which the start trigger of session c came
\*                    ("Transcribing": Finalizing with sendRecordingData
\*                    awaiting its result)
\* hist.hadChunk[c]   audioChunks was non-empty when stopRecording stopped c
\* hist.lateCancel[c] cancel was called while session c was in flight
\* hist.due[c]        Elapsed at the moment processRecording computed sent[c]
\* hist.brokenRun     see NoteFrame
\* hist.ignored       the last step was a stop ("stop") or a cancel ("cancel")
\*                    call made while state.isRecording was false
\* hist.shown         the milliseconds the timer text was last made from
\* hist.rec           the time that passed while the session was recording and
\*                    not paused, since startRecording opened it
\* hist.notes         the 'paused' and 'resumed' notifications sent to the
\*                    main process since startRecording opened the session
\* hist.resumed       when resumeRecording last resumed the session (0: it
\*                    has not)
\* hist.call          the method of the HotkeyManager the last step called
\* hist.frame         the last step ran drawWaveform on a sample: the sample
\*                    and whether the frame found the session paused
\* Only hist.how is always recorded; a specification records the others it
\* names in `tracked`, so that each property pays for its own history only.
NoFrame == [dev |-> 0 - 1, paused |-> FALSE]

\* The history a step leaves when it neither is an ignored call nor samples.
Quiet(m) == [m EXCEPT !.hist.ignored = "none", !.hist.frame = NoFrame]

\* ---------------------------------------------------------------- Init
\* The state in which app.whenReady() leaves a run that started with the
\* given store (ready), or the state just before it.
InitOf(T, store, isReady) ==
  /\ tracked = T
  /\ state = [isRecording |-> FALSE, isPaused |-> FALSE, isCancelled |-> FALSE,
              startTime |-> 0, pausedTime |-> 0, pauseStart |-> 0,
              silenceStart |-> 0, audioChunks |-> <<>>]
  /\ mediaStream = 0
  /\ audioContext = 0
  /\ analyser = 0
  /\ mediaRecorder = 0
  /\ animationFrameId = "null"
  /\ raf = <<>>
  /\ isMicMuted = FALSE
  /\ settings = DefaultSettings
  /\ statusText = "Ready"
  /\ streams = [c \in Sess |-> "none"]
  /\ contexts = [c \in Sess |-> "none"]
  /\ recorders = [c \in Sess |-> "none"]
  /\ recEvents = [c \in Sess |-> "none"]
  /\ startCall = [c \in Sess |-> "none"]
  /\ proc = [c \in Sess |-> "none"]
  /\ sent = [c \in Sess |-> 0]
  /\ timers = <<>>
  /\ now = 1
  /\ nextId = 1
  /\ currentGain = MIN_GAIN
  /\ timerText = <<0, 0>>
  /\ isRecording = FALSE
  /\ currentState = "idle"
  /\ mainSettings = store
  /\ settingsWindow = FALSE
  /\ ready = isReady
  /\ LET h == IF isReady THEN registerHotkeys(NoHotkeys) ELSE NoHotkeys
     IN /\ hotkeyManager = h.hotkeyManager
        /\ globalShortcut = h.globalShortcut
        /\ hotkeySettings = h.hotkeySettings
  /\ settingsPage = NoSettingsPage
  /\ request = NoRequest
  /\ totalCost = 0
  /\ hist = [how |-> [c \in Sess |-> "none"],
             trig |-> [c \in Sess |-> "none"],
             hadChunk |-> [c \in Sess |-> FALSE],
             lateCancel |-> [c \in Sess |-> FALSE],
             due |-> [c \in Sess |-> 0],
             brokenRun |-> FALSE,
             ignored |-> "none",
             shown |-> 0,
             rec |-> 0,
             notes |-> <<>>,
             resumed |-> 0,
             call |-> "none",
             frame |-> NoFrame]

\* A running app with an API key stored.
InitWith(T) ==
  InitOf(T, [DefaultSettings EXCEPT !.apiKey = TRUE, !.apiKeyValid = TRUE], TRUE)

\* ------------------------------------------------- history bookkeeping
\* After a run of drawWaveform that took m0 to m1 with the given sample:
\* has a frame at or above the silence level been sampled, while recording
\* and not paused, since state.silenceStart was last set?
NoteFrame(m0, m1, maxDeviation) ==
  IF "brokenRun" \notin m0.tracked THEN FALSE
  ELSE IF m1.state.silenceStart # m0.state.silenceStart THEN FALSE
  ELSE IF /\ m0.analyser # 0 /\ m0.state.isRecording /\ ~m0.state.isPaused
          /\ m0.state.silenceStart # 0
          /\ maxDeviation >= 1 + m0.settings.silenceThreshold
       THEN TRUE
       ELSE m0.hist.brokenRun

\* m1 = drawWaveform(m0, maxDeviation, t) with its history recorded.
Drawn(m0, m1, maxDeviation) ==
  [m1 EXCEPT
     !.hist.brokenRun = NoteFrame(m0, m1, maxDeviation),
     !.hist.ignored = "none",
     !.hist.frame =
        IF "frame" \in m0.tracked /\ m0.analyser # 0 /\ m0.state.isRecording
        THEN [dev |-> maxDeviation, paused |-> m0.state.isPaused]
        ELSE NoFrame]

\* ------------------------------------------- the recording IPC listeners
\* onRecordingStart: startRecording() is called as session c.
OnRecordingStart(m, c) ==
  [startRecording(m, c) EXCEPT !.hist.trig[c] =
     IF m.isMicMuted \/ "trig" \notin m.tracked THEN @
     ELSE IF /\ Phase(m) = "Finalizing"
             /\ \E d \in Sess : m.proc[d] \in {"sending", "noKey"}
          THEN "Transcribing"
          ELSE Phase(m)]

\* onRecordingStop
OnRecordingStop(m) ==
  LET m1 == stopRecording(m)
  IN [m1 EXCEPT
        !.hist.hadChunk =
           [c \in Sess |->
              IF /\ "hadChunk" \in m.tracked
                 /\ m1.hist.how[c] = "stop" /\ m.hist.how[c] # "stop"
              THEN Len(m.state.audioChunks) > 0 ELSE @[c]],
        !.hist.ignored =
           IF "ignored" \in m.tracked /\ ~m.state.isRecording
           THEN "stop" ELSE "none"]

\* onRecordingCancel
OnRecordingCancel(m, t) ==
  [cancelRecording(m, t) EXCEPT
     !.hist.ignored =
        IF "ignored" \in m.tracked /\ ~m.state.isRecording
        THEN "cancel" ELSE "none"]

\* ------------------------------------------------- main process: main.ts
\* startRecording() of main.ts: without an API key it opens the settings
\* window; otherwise it sets the flag and the tray and sends RECORDING_START.
\* createSettingsWindow().  A specification that does not name "window"
\* leaves the settings window out.
createSettingsWindow(m) ==
  IF "window" \in m.tracked
  THEN [m EXCEPT !.settingsWindow = TRUE,
                 !.settingsPage = IF m.settingsWindow
                                  THEN [@ EXCEPT !.visible = TRUE]
                                  ELSE [NoSettingsPage EXCEPT !.visible = TRUE]]
  ELSE m

mainStartRecording(m, c) ==
  IF m.isRecording THEN m
  ELSE IF ~m.mainSettings.apiKey THEN createSettingsWindow(m)
  ELSE OnRecordingStart(setState([m EXCEPT !.isRecording = TRUE], "recording"),
                        c)

\* stopRecording() of main.ts
mainStopRecording(m) ==
  IF m.isRecording
  THEN OnRecordingStop([m EXCEPT !.isRecording = FALSE])
  ELSE m

\* cancelRecording() of main.ts, the callback of the cancel hotkey
mainCancelRecording(m, t) ==
  IF m.isRecording
  THEN OnRecordingCancel(setState([m EXCEPT !.isRecording = FALSE], "idle"), t)
  ELSE m

\* toggleRecording() of main.ts, the callback of the record hotkey and of the
\* tray's start/stop entry
toggleRecording(m, c) ==
  IF m.isRecording THEN mainStopRecording(m) ELSE mainStartRecording(m, c)

\* The SETTINGS_UPDATE handler: the store is updated and the new settings are
\* broadcast; the overlay's onSettingsChanged listener merges them.
settingsUpdate(m, updated) ==
  loadSettings([m EXCEPT !.mainSettings = updated], updated)

\* What a run of drawWaveform can sample: nothing (written 0) when it returns
\* before it reads the analyser.
Sampled(m) == IF "gain" \in m.tracked THEN GainDeviations ELSE Deviations

Samples(m) ==
  IF m.analyser # 0 /\ m.state.isRecording THEN Sampled(m) ELSE {0}

\* ------------------------------------------------------------- actions
\* The record hotkey (or the tray entry) is pressed.
RecordHotkey ==
  /\ ready
  /\ isRecording \/ ~mainSettings.apiKey \/ nextId <= MaxSessions
  /\ LET m == toggleRecording(Quiet(Renderer), nextId)
     IN /\ Commit(m)
        /\ nextId' = IF nextId <= MaxSessions /\ m.startCall[nextId] # "none"
                      THEN nextId + 1 ELSE nextId
  /\ UNCHANGED now

\* The cancel hotkey is pressed.
CancelHotkey ==
  /\ ready
  /\ LET m == mainCancelRecording(Quiet(Renderer), now)
     IN Commit([m EXCEPT
                  !.hist.lateCancel =
                     [c \in Sess |->
                        @[c] \/ ("lateCancel" \in tracked
                                   /\ InFlight(Renderer, c))]])
  /\ UNCHANGED <<now, nextId>>

\* getSettings() answers with the store of the main process.
LoadSettingsResolved(c) ==
  /\ ready
  /\ startCall[c] = "loadSettings"
  /\ Commit(Quiet(startRecordingLoaded(Renderer, c, mainSettings)))
  /\ UNCHANGED <<now, nextId>>

GetUserMediaResolved(c) ==
  /\ ready
  /\ startCall[c] = "getUserMedia"
  /\ \E d \in Sampled(Renderer) :
       LET m == startRecordingOpened(Renderer, c, d, now)
       IN Commit([m EXCEPT !.hist.brokenRun = FALSE,
                           !.hist.ignored = "none",
                           !.hist.frame =
                              IF "frame" \in tracked
                              THEN [dev |-> d, paused |-> FALSE] ELSE NoFrame])
  /\ UNCHANGED <<now, nextId>>

GetUserMediaRejected(c) ==
  /\ ready
  /\ startCall[c] = "getUserMedia"
  /\ Commit(Quiet(startRecordingFailed(Renderer, c)))
  /\ UNCHANGED <<now, nextId>>

\* The overlay's keydown listener: Escape cancels while recording, and
\* otherwise only hides the window.
KeydownEscape ==
  /\ ready
  /\ IF state.isRecording
     THEN Commit(Quiet(cancelRecording(Renderer, now)))
     ELSE Commit(Quiet(Renderer))
  /\ UNCHANGED <<now, nextId>>

\* The settings window saves: SETTINGS_UPDATE, then onSettingsChanged.
OnSettingsChanged ==
  /\ ready
  /\ \E updated \in LoadedSettings :
       Commit(Quiet(settingsUpdate(Renderer, updated)))
  /\ UNCHANGED <<now, nextId>>

\* The monitor track's mute / unmute events: updateMicMuteUI.
MicMuteChanged ==
  /\ ready
  /\ Commit(Quiet(updateIdleStatus([Renderer EXCEPT !.isMicMuted = ~isMicMuted])))
  /\ UNCHANGED <<now, nextId>>

\* The oldest pending animation-frame callback runs.
Frame ==
  /\ ready
  /\ raf # <<>>
  /\ \E d \in Samples(Renderer) :
       LET m0 == [Renderer EXCEPT !.raf = Tail(raf)]
       IN Commit(Drawn(m0, drawWaveform(m0, d, now), d))
  /\ UNCHANGED <<now, nextId>>

\* mediaRecorder.ondataavailable for a timeslice of a recording recorder.
RecorderData(c) ==
  /\ ready
  /\ recorders[c] = "recording"
  /\ Len(state.audioChunks) < MaxChunks
  /\ Commit(Quiet([Renderer EXCEPT !.state.audioChunks = Append(@, c)]))
  /\ UNCHANGED <<now, nextId>>

\* The final dataavailable event of a stopped recorder; its blob may be empty.
RecorderFinalData(c) ==
  /\ ready
  /\ recEvents[c] = "data"
  /\ \E hasData \in BOOLEAN :
       Commit(Quiet([Renderer EXCEPT
                 !.state.audioChunks = IF hasData THEN Append(@, c) ELSE @,
                 !.recEvents[c] = "stop"]))
  /\ UNCHANGED <<now, nextId>>

\* mediaRecorder.onstop: processRecording() starts.
RecorderStopped(c) ==
  /\ ready
  /\ recEvents[c] = "stop"
  /\ Commit(Quiet(processRecording([Renderer EXCEPT !.recEvents[c] = "fired"],
                                    c, now)))
  /\ UNCHANGED <<now, nextId>>

ArrayBufferResolved(c) ==
  /\ ready
  /\ proc[c] = "arrayBuffer"
  /\ Commit(Quiet(processRecordingSend(Renderer, c)))
  /\ UNCHANGED <<now, nextId>>

\* audioBlob.arrayBuffer() rejected: the catch block of processRecording.
ArrayBufferRejected(c) ==
  /\ ready
  /\ proc[c] = "arrayBuffer"
  /\ Commit(Quiet(processRecordingResult(Renderer, c, "reject", now)))
  /\ UNCHANGED <<now, nextId>>

\* The RECORDING_DATA handler finishes and its answer reaches the renderer.
ResultArrives(c) ==
  /\ ready
  /\ proc[c] \in {"sending", "noKey"}
  /\ \E res \in IF proc[c] = "noKey" THEN {"error"}
                 ELSE {"error", "text", "noSpeech"} :
       Commit(Quiet(processRecordingResult(
                      recordingDataSettled(Renderer, c, res), c, res, now)))
  /\ UNCHANGED <<now, nextId>>

\* The pending timer with the earliest deadline fires once it is due.
TimerFires ==
  /\ ready
  /\ timers # <<>>
  /\ Head(timers).at <= now
  /\ \E d \in Samples(Renderer) :
       LET m0 == [Renderer EXCEPT !.timers = Tail(timers)]
           k == Head(timers).kind
       IN IF k = "cancel" /\ state.isRecording
          THEN Commit(Quiet(resetTimer(m0, k, d, now)))
          ELSE Commit(Drawn(setStatus(m0, "ready", "Ready"),
                            resetTimer(m0, k, d, now), d))
  /\ UNCHANGED <<now, nextId>>

Tick ==
  /\ ready
  /\ \E dt \in TickSteps :
       /\ now + dt <= MaxNow
       /\ now' = now + dt
       /\ Commit(Quiet([Renderer EXCEPT !.hist.rec =
                    IF /\ "timer" \in tracked
                       /\ state.isRecording /\ ~state.isPaused
                    THEN @ + dt ELSE @]))
  /\ UNCHANGED nextId

Next ==
  \/ RecordHotkey
  \/ CancelHotkey
  \/ KeydownEscape
  \/ OnSettingsChanged
  \/ MicMuteChanged
  \/ Frame
  \/ TimerFires
  \/ Tick
  \/ \E c \in Sess :
       \/ LoadSettingsResolved(c)
       \/ GetUserMediaResolved(c)
       \/ GetUserMediaRejected(c)
       \/ RecorderData(c)
       \/ RecorderFinalData(c)
       \/ RecorderStopped(c)
       \/ ArrayBufferResolved(c)
       \/ ArrayBufferRejected(c)
       \/ ResultArrives(c)

Init == InitWith({})

Spec == Init /\ [][Next]_vars

\* The clock advances, and stops ShortTicks steps after the start.
ShortTick ==
  /\ Tick
  /\ now' <= ShortNow

\* The whole program over a short stretch of time, for the properties that
\* do not turn on how long a session lasts.
NextShort ==
  \/ RecordHotkey
  \/ CancelHotkey
  \/ KeydownEscape
  \/ OnSettingsChanged
  \/ MicMuteChanged
  \/ Frame
  \/ TimerFires
  \/ ShortTick
  \/ \E c \in Sess :
       \/ LoadSettingsResolved(c)
       \/ GetUserMediaResolved(c)
       \/ GetUserMediaRejected(c)
       \/ RecorderData(c)
       \/ RecorderFinalData(c)
       \/ RecorderStopped(c)
       \/ ArrayBufferResolved(c)
       \/ ArrayBufferRejected(c)
       \/ ResultArrives(c)

\* The program over the whole stretch of time, with a microphone that is
\* never muted, for the properties about durations, the timer and the
\* pause / resume notifications.
NextUnmuted ==
  \/ RecordHotkey
  \/ CancelHotkey
  \/ KeydownEscape
  \/ OnSettingsChanged
  \/ Frame
  \/ TimerFires
  \/ Tick
  \/ \E c \in Sess :
       \/ LoadSettingsResolved(c)
       \/ GetUserMediaResolved(c)
       \/ GetUserMediaRejected(c)
       \/ RecorderData(c)
       \/ RecorderFinalData(c)
       \/ RecorderStopped(c)
       \/ ArrayBufferResolved(c)
       \/ ArrayBufferRejected(c)
       \/ ResultArrives(c)

SpecShort == Init /\ [][NextShort]_vars

\* The same program with the history each group of properties reads.
SpecStart == InitWith({"trig"}) /\ [][NextShort]_vars
SpecCancel == InitWith({"lateCancel"}) /\ [][NextShort]_vars
SpecIgnored == InitWith({"ignored"}) /\ [][NextShort]_vars
SpecChunks == InitWith({"hadChunk"}) /\ [][NextShort]_vars
SpecSilence == InitWith({"brokenRun", "frame"}) /\ [][NextShort]_vars
SpecDuration == InitWith({"due"}) /\ [][NextUnmuted]_vars
SpecTimer == InitWith({"timer", "frame"}) /\ [][NextUnmuted]_vars
SpecTray == InitWith({"tray"}) /\ [][NextShort]_vars
SpecCost == InitWith({"cost"}) /\ [][NextShort]_vars
SpecNotify == InitWith({"notes"}) /\ [][NextUnmuted]_vars

\* app.whenReady(): the IPC handlers are set up, the tray is initialized, the
\* hotkeys are registered and the main window is created.
AppReady ==
  /\ ~ready
  /\ Commit(registerHotkeys([Renderer EXCEPT !.ready = TRUE]))
  /\ UNCHANGED <<now, nextId>>

\* A first run: the app starts with no API key in the store.  The hotkeys,
\* the settings window and the sessions they start, without the clock, the
\* frames and the mute state, which the start gate does not read.
NextFirstRun ==
  \/ AppReady
  \/ RecordHotkey
  \/ CancelHotkey
  \/ OnSettingsChanged
  \/ \E c \in Sess :
       \/ LoadSettingsResolved(c)
       \/ GetUserMediaResolved(c)
       \/ GetUserMediaRejected(c)
       \/ RecorderFinalData(c)
       \/ RecorderStopped(c)
       \/ ArrayBufferResolved(c)
       \/ ResultArrives(c)

SpecFirstRun ==
  InitOf({"window"}, DefaultSettings, FALSE) /\ [][NextFirstRun]_vars

\* The visualizer alone: sessions are started and stopped by the record
\* hotkey and run to their results while frames are sampled; what does not
\* touch the gain (the settings, the mute state, cancels, failures to open
\* the microphone) is left out.
NextGain ==
  \/ RecordHotkey
  \/ Frame
  \/ TimerFires
  \/ Tick
  \/ \E c \in Sess :
       \/ LoadSettingsResolved(c)
       \/ GetUserMediaResolved(c)
       \/ RecorderFinalData(c)
       \/ RecorderStopped(c)
       \/ ArrayBufferResolved(c)
       \/ ResultArrives(c)

SpecGain == InitWith({"gain", "frame"}) /\ [][NextGain]_vars

\* Silence detection alone: sessions started and stopped by the record
\* hotkey, frames, the clock, and the settings-changed events that switch
\* silence detection off and on.
NextResume ==
  \/ RecordHotkey
  \/ OnSettingsChanged
  \/ Frame
  \/ TimerFires
  \/ Tick
  \/ \E c \in Sess :
       \/ LoadSettingsResolved(c)
       \/ GetUserMediaResolved(c)
       \/ RecorderFinalData(c)
       \/ RecorderStopped(c)
       \/ ArrayBufferResolved(c)
       \/ ResultArrives(c)

SpecResume == InitWith({"brokenRun", "resumed"}) /\ [][NextResume]_vars

\* ------------------------------------------- the HotkeyManager by itself
\* The methods of the HotkeyManager called in any order, on a manager that
\* starts as constructed, while the hotkey settings change and other
\* applications take and release accelerators.
Called(m, method) == [m EXCEPT !.hist.call = method]

RegisterHotkeysCall ==
  /\ Commit(Called(registerHotkeys(Renderer), "registerHotkeys"))
  /\ UNCHANGED <<now, nextId>>

UpdateHotkeysCall ==
  /\ Commit(Called(updateHotkeys(Renderer), "updateHotkeys"))
  /\ UNCHANGED <<now, nextId>>

PauseCall ==
  /\ Commit(Called(pause(Renderer), "pause"))
  /\ UNCHANGED <<now, nextId>>

ResumeCall ==
  /\ Commit(Called(resume(Renderer), "resume"))
  /\ UNCHANGED <<now, nextId>>

\* settingsManager.update() with new hotkeys.
HotkeySettingsChange ==
  /\ \E r, c \in Accelerators \cup {""} :
       /\ <<r, c>> # <<hotkeySettings.recordHotkey, hotkeySettings.cancelHotkey>>
       /\ Commit(Called([Renderer EXCEPT
                           !.hotkeySettings = [recordHotkey |-> r,
                                               cancelHotkey |-> c]],
                        "none"))
  /\ UNCHANGED <<now, nextId>>

\* Another application registers an accelerator that is free, or lets go of
\* one it holds.
OtherApplication ==
  /\ \E a \in Accelerators :
       /\ globalShortcut[a] \in {"free", "other"}
       /\ Commit(Called([Renderer EXCEPT !.globalShortcut[a] =
                           IF @ = "free" THEN "other" ELSE "free"],
                        "none"))
  /\ UNCHANGED <<now, nextId>>

NextHotkeyManager ==
  \/ RegisterHotkeysCall
  \/ UpdateHotkeysCall
  \/ PauseCall
  \/ ResumeCall
  \/ HotkeySettingsChange
  \/ OtherApplication

SpecHotkeyManager ==
  InitOf({}, DefaultSettings, FALSE) /\ [][NextHotkeyManager]_vars

\* ------------------------------------------- the settings window
\* startHotkeyCapture(input, span, key): HOTKEYS_PAUSE is sent, whose handler
\* calls hotkeyManager.pause().
startHotkeyCapture(m, key) ==
  [pause(m) EXCEPT !.settingsPage.activeHotkeyKey = key]

\* stopHotkeyCapture(): HOTKEYS_RESUME is sent, whose handler calls
\* hotkeyManager.resume(); then, if a capture was active, saveSettings()
\* sends the form values, hotkeys included, to SETTINGS_UPDATE.
stopHotkeyCapture(m, values) ==
  LET wasCapturing == m.settingsPage.activeHotkeyKey # "null"
      m1 == resume([m EXCEPT !.settingsPage.activeHotkeyKey = "null"])
  IN IF wasCapturing THEN settingsUpdateHotkeys(m1, values) ELSE m1

\* The WINDOW_SHOW_SETTINGS handler: a settings window that is shown is
\* closed, which destroys its page with its timers; one that is hidden is
\* shown; and none is created.
windowShowSettings(m) ==
  IF m.settingsWindow
  THEN IF m.settingsPage.visible
       THEN [m EXCEPT !.settingsWindow = FALSE, !.settingsPage = NoSettingsPage]
       ELSE [m EXCEPT !.settingsPage.visible = TRUE]
  ELSE createSettingsWindow(m)

\* The settings button of the overlay is clicked.
ShowSettings ==
  /\ ready
  /\ Commit(windowShowSettings(Renderer))
  /\ UNCHANGED <<now, nextId>>

\* The Settings entry of the tray menu is chosen.
TraySettings ==
  /\ ready
  /\ Commit(createSettingsWindow(Renderer))
  /\ UNCHANGED <<now, nextId>>

\* The close button of the settings window: a capture under way is stopped,
\* then WINDOW_CLOSE hides the window.
CloseButton ==
  /\ ready /\ settingsWindow /\ settingsPage.visible
  /\ LET m == IF settingsPage.activeHotkeyKey # "null"
              THEN stopHotkeyCapture(Renderer, hotkeySettings)
              ELSE Renderer
     IN Commit([m EXCEPT !.settingsPage.visible = FALSE])
  /\ UNCHANGED <<now, nextId>>

\* One of the two hotkey inputs is clicked.
HotkeyInputClicked ==
  /\ ready /\ settingsWindow /\ settingsPage.visible
  /\ \E key \in {"recordHotkey", "cancelHotkey"} :
       Commit(startHotkeyCapture(Renderer, key))
  /\ UNCHANGED <<now, nextId>>

\* handleHotkeyKeydown with a modifier key: the pending blur timeout is
\* cleared and the capture goes on.
ModifierKeydown ==
  /\ ready /\ settingsWindow /\ settingsPage.visible
  /\ settingsPage.activeHotkeyKey # "null"
  /\ Commit([Renderer EXCEPT !.settingsPage.blurTimeout = FALSE])
  /\ UNCHANGED <<now, nextId>>

\* handleHotkeyKeydown with the key that completes accelerator a: the span
\* takes it and the capture is stopped.
HotkeyKeydown ==
  /\ ready /\ settingsWindow /\ settingsPage.visible
  /\ settingsPage.activeHotkeyKey # "null"
  /\ \E a \in Accelerators :
       LET values == [hotkeySettings EXCEPT ![settingsPage.activeHotkeyKey] = a]
       IN Commit(stopHotkeyCapture(
                   [Renderer EXCEPT !.settingsPage.blurTimeout = FALSE],
                   values))
  /\ UNCHANGED <<now, nextId>>

\* The capturing input loses the focus: handleHotkeyBlur arms its timeout.
HotkeyBlur ==
  /\ ready /\ settingsWindow /\ settingsPage.visible
  /\ settingsPage.activeHotkeyKey # "null"
  /\ Commit([Renderer EXCEPT !.settingsPage.blurTimeout = TRUE])
  /\ UNCHANGED <<now, nextId>>

\* The blur timeout fires in a page that still exists.
BlurTimeoutFires ==
  /\ ready /\ settingsWindow /\ settingsPage.blurTimeout
  /\ Commit(stopHotkeyCapture(
              [Renderer EXCEPT !.settingsPage.blurTimeout = FALSE],
              hotkeySettings))
  /\ UNCHANGED <<now, nextId>>

NextCapture ==
  \/ ShowSettings
  \/ TraySettings
  \/ CloseButton
  \/ HotkeyInputClicked
  \/ ModifierKeydown
  \/ HotkeyKeydown
  \/ HotkeyBlur
  \/ BlurTimeoutFires
  \/ OtherApplication

SpecCapture == InitWith({"window"}) /\ [][NextCapture]_vars

\* --------------------------------------------- transcribeAudio by itself
\* What the transport can do to one request.  StatusCodes holds every status
\* parseApiError() tells apart, one it does not (404) and a missing one (0).
StatusCodes == {200, 401, 429, 500, 503, 403, 404, 0}

Texts == {Empty, Lit("Hello world.", 12)}

ErrorMessages ==
  {Empty,
   Str(<<"Incorrect API key", " provided: sk-test">>, 35),
   Str(<<"Invalid Authentication">>, 22),
   Str(<<"You exceeded your current ", "quota",
         ", please check your plan and billing details.">>, 76),
   Str(<<"Rate limit", " reached for whisper-1">>, 32),
   Str(<<"Slow Down",
         " - you are sending requests too quickly and the engine is overloaded">>,
       77),
   Str(<<"Invalid URL (POST /v1/audio/transcription)">>, 42)}

ErrorKinds ==
  {<<"", "">>, <<"rate_limit_exceeded", "">>,
   <<"insufficient_quota", "insufficient_quota">>}

Bodies ==
  {InvalidBody, NullBody}
    \cup {Body("object", text, Empty, "", "") : text \in Texts}
    \cup {Body("object", Empty, message, kind[1], kind[2]) :
            message \in ErrorMessages, kind \in ErrorKinds}

ConnectionErrors ==
  {Empty, Lit("socket hang up", 14),
   Lit("getaddrinfo ENOTFOUND api.openai.com", 36)}

\* The RECORDING_DATA handler calls transcribeAudio().
TranscribeAudioCall ==
  /\ ready
  /\ request.phase \in {"none", "done"}
  /\ Commit(transcribeAudio(Renderer))
  /\ UNCHANGED <<now, nextId>>

\* The response has been read to its end.
ResponseEnds ==
  /\ ready
  /\ request.phase = "sent"
  /\ \E statusCode \in StatusCodes, data \in Bodies :
       Commit(onEnd(Renderer, statusCode, data))
  /\ UNCHANGED <<now, nextId>>

\* The request fails: no connection, a reset, or its own destroy().
RequestErrors ==
  /\ ready
  /\ request.phase \in {"sent", "destroyed"}
  /\ \E message \in ConnectionErrors : Commit(onError(Renderer, message))
  /\ UNCHANGED <<now, nextId>>

\* The socket has been idle for options.timeout.
RequestTimesOut ==
  /\ ready
  /\ request.phase = "sent"
  /\ Commit(onTimeout(Renderer))
  /\ UNCHANGED <<now, nextId>>

NextTranscribe ==
  \/ TranscribeAudioCall
  \/ ResponseEnds
  \/ RequestErrors
  \/ RequestTimesOut

SpecTranscribe == InitWith({}) /\ [][NextTranscribe]_vars

\* ------------------------------------------------------------ properties
Outcomes == {"error", "text", "noSpeech", "reject"}

\* C1: a start trigger that arrives while a stopped session is still
\* Finalizing, its transcription call not yet settled, is a no-op: its call
\* never opens an audio source, never creates a recorder and never puts the
\* controller into Recording.
C1_StartIgnoredUnlessIdle ==
  \A c \in Sess :
    hist.trig[c] = "Transcribing" =>
      /\ streams[c] = "none"
      /\ recorders[c] = "none"
      /\ startCall[c] # "done"

\* C2: when cancel() was issued while the transcription call of a session
\* was in flight, the call's result never reaches the sink: the session
\* ends with no 'Copied!', 'No speech' or error outcome.
C2_LateCancelSuppresses ==
  \A c \in Sess : hist.lateCancel[c] => proc[c] \notin Outcomes

\* C3: a session whose recorder was stopped by cancel() has its audio source
\* released in that same step, and its 'stopped' callback never invokes the
\* Transcription Service nor delivers an outcome.
C3_CancelSuppressesFinalize ==
  \A c \in Sess :
    hist.how[c] = "cancel" =>
      /\ streams[c] = "ended"
      /\ proc[c] \in {"none", "skipped", "empty"}

\* C4: there is never more than one open audio stream and never more than
\* one active recorder.
C4_AtMostOneSession ==
  /\ Cardinality({c \in Sess : streams[c] = "live"}) <= 1
  /\ Cardinality({c \in Sess : recorders[c] \in {"recording", "paused"}}) <= 1

\* C5: a stop() or cancel() call made while the phase is neither Recording
\* nor Paused changes none of phase, audioChunks, startTime, pausedTime,
\* pauseStart, silenceStart and the cancellation flag, stops no recorder and
\* starts no finalize.
C5_IllegalCallsAreNoOps ==
  [][hist'.ignored # "none" =>
       /\ state' = state
       /\ Phase(Renderer)' = Phase(Renderer)
       /\ recorders' = recorders
       /\ recEvents' = recEvents
       /\ proc' = proc
       /\ sent' = sent]_vars

C5_Witness ==
  /\ hist.ignored = "cancel"
  /\ Phase(Renderer) = "Finalizing"
  /\ \E c \in Sess : proc[c] = "sending"

\* C6: a session stopped by stop() with at least one chunk buffered is never
\* dropped without an outcome: its finalize neither takes the cancelled
\* path nor the empty-buffer path.
C6_StoppedSessionGetsOutcome ==
  \A c \in Sess :
    hist.how[c] = "stop" /\ hist.hadChunk[c] => proc[c] \notin {"skipped", "empty"}

C8_PauseNeedsUnbrokenSilence ==
  [][/\ (~state.isPaused /\ state'.isPaused)
        => /\ hist'.frame.dev >= 0
           /\ hist'.frame.dev < 1 + settings.silenceThreshold
           /\ state.silenceStart # 0
           /\ now - state.silenceStart > settings.pauseDelay
           /\ ~hist.brokenRun
     /\ (/\ hist'.frame.dev >= 1 + settings.silenceThreshold
         /\ ~hist'.frame.paused /\ settings.silenceDetection)
        => state'.silenceStart = 0]_vars

\* C9: a frame sampled while Paused with silence detection enabled resumes
\* recording if and only if its maxDeviation exceeds silenceThreshold + 4.
C9_ResumeHysteresis ==
  [][(hist'.frame.paused /\ settings.silenceDetection)
       => /\ state'.isRecording
          /\ state'.isPaused <=> hist'.frame.dev <= settings.silenceThreshold + 4]_vars

C9_Witness ==
  /\ hist.frame.paused
  /\ hist.frame.dev = 10
  /\ settings.silenceThreshold = 5
  /\ state.isRecording /\ ~state.isPaused

\* C10: the duration handed to the Transcription Service is the elapsed
\* recording time at finalize, the pause that is still open not counted.
C10_DurationExcludesOpenPause ==
  \A c \in Sess :
    proc[c] \in {"arrayBuffer", "sending", "noKey"} => sent[c] = hist.due[c]

C12_GainStaysInRange ==
  [][/\ MIN_GAIN <= currentGain' /\ currentGain' <= MAX_GAIN
     /\ \A d \in 0..128 :
          /\ MIN_GAIN <= autoGain(currentGain', d)
          /\ autoGain(currentGain', d) <= MAX_GAIN
     /\ (hist'.frame.dev = 0 /\ startCall' = startCall)
        => currentGain' = currentGain]_vars

\* A frame of deviation 0 holds a gain that the clamp stopped at MAX_GAIN.
C12_Witness ==
  /\ hist.frame.dev = 0
  /\ currentGain = MAX_GAIN

\* C13: every error is terminal for its session: in the step that reports a
\* failure to open the audio source or a failed transcription the phase
\* becomes Idle with no audio stream live and no recorder active, and the
\* failed session is never taken up again.
C13_ErrorsAreTerminal ==
  [][\A c \in Sess :
       /\ (\/ startCall[c] = "getUserMedia" /\ startCall'[c] = "failed"
           \/ proc[c] \notin {"error", "reject"}
              /\ proc'[c] \in {"error", "reject"})
          => /\ Phase(Renderer)' = "Idle"
             /\ \A d \in Sess : streams'[d] # "live"
             /\ \A d \in Sess : recorders'[d] \notin {"recording", "paused"}
       /\ startCall[c] = "failed" => startCall'[c] = "failed"
       /\ proc[c] \in {"error", "reject"} => proc'[c] = proc[c]]_vars

\* C14: the pause-start timestamp is set if and only if the phase is
\* Paused.
C14_PauseStartIffPaused ==
  state.pauseStart # 0 <=> Phase(Renderer) = "Paused"

\* C15: audioChunks is non-empty only while the phase is Recording, Paused
\* or Finalizing.
C15_ChunksOnlyInSession ==
  Len(state.audioChunks) > 0
    => Phase(Renderer) \in {"Recording", "Paused", "Finalizing"}

\* C16: the sampling loop runs only while Recording or Paused: a step that
\* ends with state.isRecording false (stop, cancel, and every step until
\* the next start opens a session) schedules no frame, and makes none of
\* the frame-driven changes: pause, resume, silence-timer update.
C16_NoSamplingOutsideSession ==
  [][~state'.isRecording
       => /\ Len(raf') < Len(raf) \/ raf' = raf
          /\ state'.isPaused = state.isPaused
          /\ state'.pauseStart = state.pauseStart
          /\ state'.pausedTime = state.pausedTime
          /\ state'.silenceStart = state.silenceStart]_vars

\* A frame callback is still pending after stop, with the analyser not yet
\* released.
C16_Witness ==
  /\ ~state.isRecording
  /\ raf # <<>>
  /\ analyser # 0
  /\ \E c \in Sess : hist.how[c] = "stop" /\ mediaRecorder = c

\* C17: once stop() has put a session into Finalizing its audio source is
\* closed: the microphone stream is released before the transcription
\* call settles, not after.
C17_StreamReleasedOnStop ==
  \A c \in Sess :
    hist.how[c] = "stop" /\ InFlight(Renderer, c) => streams[c] # "live"

\* C19: when a transcription fails (the RECORDING_DATA request of a session
\* is answered with an error), the tray enters the 'error' state.
C19_TrayShowsError ==
  [][\A c \in Sess :
       (proc[c] # "error" /\ proc'[c] = "error") => currentState' = "error"]_vars

\* C20: totalCost grows by exactly calculateCost(duration) in the step in
\* which a transcription request returns without error, and in no other
\* step: not when the request fails or finds no API key, and never for a
\* session that was cancelled.
C20_CostOncePerSuccess ==
  [][/\ \A c \in Sess :
          (proc[c] = "sending" /\ proc'[c] \in {"text", "noSpeech"})
            => totalCost' = totalCost +
                 (IF hist.how[c] = "cancel" THEN 0 ELSE calculateCost(sent[c]))
     /\ (\A c \in Sess :
           ~(proc[c] = "sending" /\ proc'[c] \in {"text", "noSpeech"}))
        => totalCost' = totalCost]_vars

\* C18: the record hotkey is a start/stop toggle and the cancel hotkey
\* cancels.  A press of the record hotkey while the renderer is Recording
\* or Paused stops the session and hands its recorder to finalize; a press
\* of the cancel hotkey then cancels it; and a press of the record hotkey
\* while the renderer is Idle with no start under way, an API key stored
\* and the microphone not muted begins a start.
C18_HotkeysFollowRenderer ==
  [][/\ (RecordHotkey /\ state.isRecording)
        => /\ ~state'.isRecording
           /\ hist'.how[mediaRecorder] = "stop"
     /\ (CancelHotkey /\ state.isRecording)
        => /\ ~state'.isRecording
           /\ state'.isCancelled
     /\ (/\ RecordHotkey
         /\ Phase(Renderer) = "Idle"
         /\ \A c \in Sess : startCall[c] \notin {"loadSettings", "getUserMedia"}
         /\ mainSettings.apiKey /\ ~isMicMuted
         /\ nextId <= MaxSessions)
        => startCall'[nextId] = "loadSettings"]_vars

\* C21: on a first run (the app becomes ready with no API key stored) the
\* settings window is opened; and with no API key stored a press of the
\* record hotkey sends no start to the renderer and leaves the recording
\* flag of the main process false.
C21_FirstRunOpensSettings ==
  [][/\ (~ready /\ ready' /\ ~mainSettings.apiKey) => settingsWindow'
     /\ (RecordHotkey /\ ~isRecording /\ ~mainSettings.apiKey)
        => /\ ~isRecording'
           /\ startCall' = startCall
           /\ settingsWindow']_vars

\* C22: a start that succeeds from Idle (its getUserMedia resolves with the
\* controller Idle and no other start under way) leaves a fresh session
\* state: the gain at MIN_GAIN and the silence timer unset but for what the
\* first frame does, audioChunks empty, no accumulated pause, pause-start
\* unset, not paused, and no cancellation pending from an earlier session.
C22_StartResetsSession ==
  [][\A c \in Sess :
       (/\ startCall[c] = "getUserMedia" /\ startCall'[c] = "done"
        /\ Phase(Renderer) = "Idle"
        /\ \A d \in Sess \ {c} :
              startCall[d] \notin {"loadSettings", "getUserMedia"})
         => /\ state'.isRecording /\ ~state'.isPaused
            /\ state'.audioChunks = <<>>
            /\ state'.pausedTime = 0
            /\ state'.pauseStart = 0
            /\ state'.silenceStart \in {0, now}
            /\ \E d \in Sampled(Renderer) :
                  currentGain' = autoGain(MIN_GAIN, d)
            /\ ~state'.isCancelled]_vars

\* No start of the renderer is suspended at an await and no RECORDING_DATA
\* invocation is waiting for its answer.
Quiescent ==
  \A c \in Sess :
     /\ startCall[c] \notin {"loadSettings", "getUserMedia"}
     /\ proc[c] \notin {"sending", "noKey"}

\* C23: in every quiescent state (no message between the processes in
\* flight, no start of the renderer pending) the isRecording flag of the
\* main process equals state.isRecording of the renderer.
C23_FlagsAgree ==
  Quiescent => (isRecording = state.isRecording)

\* C24: a press of the record hotkey that the main process takes as a start
\* and the renderer, Idle with nothing pending, blocks because the
\* microphone is muted creates no session, puts the tray back to idle and leaves the isRecording flag of
\* the main process false, so that the next press is a start again.
C24_MutedStartLeavesIdle ==
  [][(/\ RecordHotkey /\ ~isRecording /\ mainSettings.apiKey /\ isMicMuted
      /\ Phase(Renderer) = "Idle" /\ Quiescent)
       => /\ startCall' = startCall
          /\ ~state'.isRecording
          /\ currentState' = "idle"
          /\ ~isRecording']_vars

\* C25: once a session is over the tray is back at idle: whenever the
\* renderer is Idle with no start pending, no recorder event queued and no
\* transcription under way, the tray does not show 'recording', 'paused'
\* or 'transcribing'.
C25_TrayIdleWhenIdle ==
  (/\ Phase(Renderer) = "Idle"
   /\ Quiescent
   /\ \A c \in Sess : recEvents[c] \notin {"data", "stop"})
    => currentState \notin {"recording", "paused", "transcribing"}

\* C26: a finalize step of session c (its 'stopped' callback, or the
\* settling of its arrayBuffer or transcription call) that runs while a
\* later session d is recording leaves d's audio stream live, d's audio
\* context open, d's recorder in place and the audioChunks untouched.
C26_CleanupSparesLaterSession ==
  [][\A c \in Sess :
       (/\ RecorderStopped(c) \/ ArrayBufferRejected(c) \/ ResultArrives(c)
        /\ state.isRecording
        /\ mediaRecorder > c)
         => /\ mediaRecorder' = mediaRecorder
            /\ mediaStream' = mediaStream
            /\ audioContext' = audioContext
            /\ streams'[mediaRecorder] = streams[mediaRecorder]
            /\ contexts'[mediaRecorder] = contexts[mediaRecorder]
            /\ state'.audioChunks = state.audioChunks]_vars

\* C27: state.isCancelled is consumed by the 'stopped' callback of the
\* session that was cancelled, and by no other: when the callback of a
\* cancelled recorder runs the flag is set and the callback clears it, and
\* when the callback of a recorder stopped by stopRecording runs the flag
\* is not set, so that session goes on to its transcription.
C27_CancelFlagConsumedOnce ==
  [][\A c \in Sess :
       /\ (RecorderStopped(c) /\ hist.how[c] = "cancel")
            => state.isCancelled /\ ~state'.isCancelled
       /\ (RecorderStopped(c) /\ hist.how[c] = "stop")
            => ~state.isCancelled /\ proc'[c] # "skipped"]_vars

\* C28: a reset-to-Ready timer that fires while a recording is under way
\* leaves the status text as it is and starts no further sampling loop.
C28_ResetTimerSparesNewSession ==
  [][(TimerFires /\ state.isRecording)
       => /\ statusText' = statusText
          /\ Len(raf') = Len(raf)]_vars

\* C29: a session that is Paused when silence detection is switched off is
\* not left Paused: a frame sampled while Paused with silence detection off
\* whose maxDeviation exceeds silenceThreshold + 4 resumes recording.
C29_PausedSessionResumes ==
  [][(/\ hist'.frame.paused /\ ~settings.silenceDetection
      /\ hist'.frame.dev > settings.silenceThreshold + 4)
       => ~state'.isPaused]_vars

\* C30: the 'paused' and 'resumed' notifications of one session alternate,
\* the first being 'paused'; each is sent by a step that leaves the session
\* Paused, respectively not Paused; and one is sent only while the session
\* is recording, never after a stop or a cancel.
C30_NotificationsAlternate ==
  [][(hist'.notes # hist.notes /\ hist'.notes # <<>>)
       => /\ \A i \in DOMAIN hist'.notes :
                hist'.notes[i] = IF i % 2 = 1 THEN "paused" ELSE "resumed"
          /\ state'.isPaused <=> (Len(hist'.notes) % 2 = 1)
          /\ state.isRecording /\ state'.isRecording]_vars

C30_Witness ==
  /\ hist.notes = <<"paused", "resumed", "paused">>
  /\ state.isRecording /\ state.isPaused

\* C31: a step that resumes a Paused session unsets the silence timer; and
\* a pause that follows a resume in the same session comes only after more
\* than pauseDelay ms of silence that began at or after that resume, with
\* no frame at or above the silence level sampled in between.
C31_PauseAfterResumeNeedsFreshSilence ==
  [][/\ (/\ state.isRecording /\ state.isPaused
         /\ state'.isRecording /\ ~state'.isPaused
         /\ startCall' = startCall)
        => state'.silenceStart = 0
     /\ (~state.isPaused /\ state'.isPaused /\ hist.resumed # 0)
        => /\ state.silenceStart # 0
           /\ state.silenceStart >= hist.resumed
           /\ now - state.silenceStart > settings.pauseDelay
           /\ ~hist.brokenRun]_vars

\* The shortcuts this app holds in the system.
Registered(gs) == {a \in Accelerators : gs[a] \in {"record", "cancel"}}

\* C32: while the HotkeyManager is paused it holds no global shortcut,
\* whatever the order of registerHotkeys, updateHotkeys, pause and resume;
\* pause() while paused and resume() while not paused change nothing; and
\* resume() while paused ends the pause and registers the record and the
\* cancel accelerator of the settings as they are at that moment (each one
\* that is set, has its callback and is free in the system, the record
\* hotkey first).
C32_PausedHoldsNoShortcut ==
  [][/\ hotkeyManager'.paused
        => /\ Registered(globalShortcut') = {}
           /\ hotkeyManager'.registeredShortcuts = <<>>
     /\ (hist'.call = "pause" /\ hotkeyManager.paused)
        => UNCHANGED <<hotkeyManager, globalShortcut, hotkeySettings>>
     /\ (hist'.call = "resume" /\ ~hotkeyManager.paused)
        => UNCHANGED <<hotkeyManager, globalShortcut, hotkeySettings>>
     /\ (hist'.call = "resume" /\ hotkeyManager.paused)
        => /\ ~hotkeyManager'.paused
           /\ \A a \in Accelerators :
                /\ globalShortcut'[a] = "record"
                   <=> /\ a = hotkeySettings.recordHotkey
                       /\ "record" \in hotkeyManager.callbacks
                       /\ globalShortcut[a] = "free"
                /\ globalShortcut'[a] = "cancel"
                   <=> /\ a = hotkeySettings.cancelHotkey
                       /\ "cancel" \in hotkeyManager.callbacks
                       /\ globalShortcut[a] = "free"
                       /\ ~(/\ a = hotkeySettings.recordHotkey
                            /\ "record" \in hotkeyManager.callbacks)]_vars

\* resume() has ended a pause and registered a record hotkey that was set
\* while the manager was paused.
C32_Witness ==
  /\ hist.call = "resume"
  /\ ~hotkeyManager.paused
  /\ hotkeySettings.recordHotkey = "F9"
  /\ globalShortcut["F9"] = "record"
  /\ globalShortcut["Escape"] = "cancel"
  /\ hotkeyManager.registeredShortcuts = <<"F9", "Escape">>

\* C33: the global hotkeys are paused only while a hotkey capture is under
\* way in a settings window that exists; once the capture is over or the
\* window is gone, they have been resumed.
C33_HotkeysNotLeftPaused ==
  hotkeyManager.paused
    => settingsWindow /\ settingsPage.activeHotkeyKey # "null"

====
